---- MODULE Spec2Model ----
(***************************************************************************)
(* TerminalBot: the supervised command execution subsystem.                *)
(*                                                                         *)
(*   executor/command.py   CommandExecutor.execute, _log_command           *)
(*   agent/safety.py       SafetyValidator                                 *)
(*   config/settings.py    Settings, SafetyConfig                          *)
(*   cli/main.py           process_query                                   *)
(*                                                                         *)
(* SpecExec models execute() as the coroutine it is: one action per stretch*)
(* of code between two suspension points, with the child's process group   *)
(* and the event loop's timers as the environment.                         *)
(* SpecConc is the same with two calls in flight on one executor.          *)
(* SpecSafety models the settings singleton, the operations of             *)
(* SafetyValidator as calls on the policy and the process table of the     *)
(* moment, and process_query from the safety check to the executor.        *)
(***************************************************************************)
EXTENDS Integers, Sequences, FiniteSets, TLC

(***************************************************************************)
(* Bounds of the model and constants of the program.                       *)
(***************************************************************************)
\* longest decoded output of one stream of a child, in characters
MaxLen == 3
\* a configured execution.max_output_size small enough to cut MaxLen
SmallCap == 2
\* the largest number of arguments of a command handed to the validator
MaxArgs == 2
\* the timeout of the calls, in ticks of the event loop's clock
Timeout == 2
\* the longest a step outside the countdown (starting the shell, the second
\* read, decoding and cutting the output) can take, in ticks
MaxDelay == 1
\* ExecutionConfig.max_output_size default
DefaultMaxOutputSize == 10485760
\* len("\n[... OUTPUT TRUNCATED ...]")
MarkerLen == 27
\* len("Command timed out and was terminated")
FixedMsgLen == 36
\* len("Execution error: " + str(e)) for the shortest text of a missing
\* directory, "[Errno 2] No such file or directory: '/x'"
ErrMsgLen == 58
\* exit code substituted for a missing one on timeout
TimeoutCode == 124
\* signal sent by os.killpg; a child it kills reports -SigKill
SigKill == 9

\* exit statuses a child can end with on its own
ExitCodes == {0, 1, 124}

MaxOutputSizes == {0, SmallCap, DefaultMaxOutputSize}

\* a directory named by the caller or by the configuration
Dirs == {"none", "valid", "missing"}

VARIABLES
  \* ---- CommandExecutor ----
  settings,     \* the Settings object the executor was built with
  cwdExists,    \* whether the interpreter's own current directory still exists
  outLens,      \* lengths of output the commands of this run can produce
  delays,       \* durations, in ticks, the steps outside the countdown can take
  dryRun,       \* the dry_run argument of each call
  pc,           \* where each execute() call stands
  leader,       \* the shell spawned for the call: none/running/exited/reaped
  desc,         \* a descendant forked into the shell's group, holding the pipes
  priv,         \* the group runs under another uid (sudo): killpg is refused
  exitStatus,   \* status the shell ended with (as a set: {} while it runs)
  workdir,      \* the local variable cwd of the call
  timed_out,    \* the local variable timed_out of the call
  reads,        \* secondary communicate() calls made by the call
  readTimedOut, \* the secondary communicate() ran into its 1 s timeout
  killTried,    \* the call reached os.killpg(os.getpgid(process.pid), 9)
  killed,       \* process groups (by owning call) the call sent SIGKILL to
  spawns,       \* create_subprocess_shell calls made by the call
  result,       \* the CommandResult returned, <<>> while there is none
  history       \* the audit log: one record per write of a line, kept or failed

\* the execute() calls in flight
Calls == DOMAIN pc

execVars == <<settings, cwdExists, outLens, delays, dryRun, pc, leader, desc, priv, exitStatus,
              workdir, timed_out, reads, readTimedOut, killTried, killed, spawns,
              result, history>>

VARIABLES
  \* ---- Settings, SafetyValidator, process_query ----
  loaded,       \* the singleton _settings: "no" (None), "yes", or "failed"
  safety,       \* settings.safety, the SafetyConfig
  procs,        \* the process table psutil reads
  call,         \* the validator operation last called and what it gave
  query         \* where process_query stands

safetyVars == <<loaded, safety, procs, call, query>>

vars == <<execVars, safetyVars>>

(***************************************************************************)
(* Text.  A str is modelled by where it came from, how many characters of  *)
(* that source it keeps (a prefix, the only slicing the code does) and     *)
(* whether the truncation marker was appended.                             *)
(***************************************************************************)
Empty == [kind |-> "empty", len |-> 0, marked |-> FALSE]

Str(kind, n) == IF n = 0 THEN Empty ELSE [kind |-> kind, len |-> n, marked |-> FALSE]

Len_(s) == s.len + (IF s.marked THEN MarkerLen ELSE 0)

\* s[:k]
Prefix(s, k) == IF s.len <= k THEN s ELSE Str(s.kind, k)

\* s + "\n[... OUTPUT TRUNCATED ...]"
WithMarker(s) == [s EXCEPT !.marked = TRUE]

FixedMsg == Str("fixed", FixedMsgLen)

DryRunMsg == Str("dryrun", 35)

ErrorMsg == Str("error", ErrMsgLen)

(***************************************************************************)
(* Python str, as the validator uses it.  A str is the sequence of its     *)
(* characters.                                                             *)
(***************************************************************************)
ToLower ==
  [ch \in {"A","B","C","D","E","F","G","H","I","J","K","L","M","N","O","P","Q",
           "R","S","T","U","V","W","X","Y","Z"} |->
     CASE ch = "A" -> "a" [] ch = "B" -> "b" [] ch = "C" -> "c" [] ch = "D" -> "d"
       [] ch = "E" -> "e" [] ch = "F" -> "f" [] ch = "G" -> "g" [] ch = "H" -> "h"
       [] ch = "I" -> "i" [] ch = "J" -> "j" [] ch = "K" -> "k" [] ch = "L" -> "l"
       [] ch = "M" -> "m" [] ch = "N" -> "n" [] ch = "O" -> "o" [] ch = "P" -> "p"
       [] ch = "Q" -> "q" [] ch = "R" -> "r" [] ch = "S" -> "s" [] ch = "T" -> "t"
       [] ch = "U" -> "u" [] ch = "V" -> "v" [] ch = "W" -> "w" [] ch = "X" -> "x"
       [] ch = "Y" -> "y" [] ch = "Z" -> "z"]

Digits == {"0","1","2","3","4","5","6","7","8","9"}

DigitVal ==
  [ch \in Digits |->
     CASE ch = "0" -> 0 [] ch = "1" -> 1 [] ch = "2" -> 2 [] ch = "3" -> 3
       [] ch = "4" -> 4 [] ch = "5" -> 5 [] ch = "6" -> 6 [] ch = "7" -> 7
       [] ch = "8" -> 8 [] ch = "9" -> 9]

\* the characters the regex class \w matches
WordChars ==
  DOMAIN ToLower \cup {ToLower[ch] : ch \in DOMAIN ToLower} \cup Digits \cup {"_"}

IsSpace(ch) == ch \in {" ", "\t", "\n"}

\* str.lower()
Lower(s) == [i \in 1..Len(s) |-> IF s[i] \in DOMAIN ToLower THEN ToLower[s[i]] ELSE s[i]]

\* str.strip()
Strip(s) ==
  LET idx == {i \in 1..Len(s) : ~IsSpace(s[i])}
  IN  IF idx = {} THEN <<>>
      ELSE SubSeq(s, CHOOSE i \in idx : \A j \in idx : i <= j,
                     CHOOSE i \in idx : \A j \in idx : i >= j)

\* str.split(): the maximal runs of characters that are not whitespace
RECURSIVE SplitFrom(_, _, _)
SplitFrom(s, i, cur) ==
  IF i > Len(s) THEN (IF cur = <<>> THEN <<>> ELSE <<cur>>)
  ELSE IF IsSpace(s[i])
       THEN (IF cur = <<>> THEN <<>> ELSE <<cur>>) \o SplitFrom(s, i + 1, <<>>)
       ELSE SplitFrom(s, i + 1, Append(cur, s[i]))

Split(s) == SplitFrom(s, 1, <<>>)

\* sub occurs in s at index i
OccursAt(s, sub, i) ==
  /\ i + Len(sub) - 1 <= Len(s)
  /\ SubSeq(s, i, i + Len(sub) - 1) = sub

\* sub in s
Contains(s, sub) == \E i \in 1..(Len(s) + 1) : OccursAt(s, sub, i)

\* the regex assertion \b between s[k] and s[k+1]
WordBoundary(s, k) ==
  (k >= 1 /\ s[k] \in WordChars) # (k < Len(s) /\ s[k + 1] \in WordChars)

\* re.search(r"\b" + re.escape(word) + r"\b", s)
WordSearch(s, word) ==
  \E i \in 1..(Len(s) + 1) :
    /\ OccursAt(s, word, i)
    /\ WordBoundary(s, i - 1)
    /\ WordBoundary(s, i + Len(word) - 1)

\* str.replace(sub, ""), for a sub that is not empty
RECURSIVE RemoveFrom(_, _, _)
RemoveFrom(s, sub, i) ==
  IF i > Len(s) THEN <<>>
  ELSE IF OccursAt(s, sub, i) THEN RemoveFrom(s, sub, i + Len(sub))
       ELSE <<s[i]>> \o RemoveFrom(s, sub, i + 1)

Remove(s, sub) == RemoveFrom(s, sub, 1)

\* int(s) succeeds: an optional sign and decimal digits
IsInt(s) ==
  LET body == IF s # <<>> /\ s[1] \in {"+", "-"} THEN Tail(s) ELSE s
  IN  body # <<>> /\ \A i \in 1..Len(body) : body[i] \in Digits

RECURSIVE DigitsVal(_)
DigitsVal(body) ==
  IF body = <<>> THEN 0
  ELSE 10 * DigitsVal(SubSeq(body, 1, Len(body) - 1)) + DigitVal[body[Len(body)]]

\* int(s)
IntVal(s) ==
  IF s[1] = "-" THEN 0 - DigitsVal(Tail(s))
  ELSE IF s[1] = "+" THEN DigitsVal(Tail(s))
  ELSE DigitsVal(s)

\* " ".join(tokens)
RECURSIVE Join(_)
Join(tokens) ==
  IF tokens = <<>> THEN <<>>
  ELSE IF Len(tokens) = 1 THEN tokens[1]
  ELSE tokens[1] \o <<" ">> \o Join(Tail(tokens))

(***************************************************************************)
(* SafetyValidator.  Every operation is a function of the command, of the  *)
(* SafetyConfig p and of the process table t that psutil reads.            *)
(***************************************************************************)
\* process ids psutil may be asked about
Pids == {1, 7, 42}

\* one entry of the process table: no such process, a process whose name can
\* be read, or one psutil may not read (AccessDenied; name None in process_iter)
NoProc == [state |-> "absent", name |-> <<>>]

Proc(name) == [state |-> "ok", name |-> name]

HiddenProc == [state |-> "denied", name |-> <<>>]

\* a message, kept as its kind and the values formatted into it
Msg(kind, n, txt) == [kind |-> kind, n |-> n, txt |-> txt]

None == Msg("none", 0, <<>>)

\* is_dangerous_command
IsDangerousCommand(p, command) ==
  LET command_lower == Strip(Lower(command))
  IN  \E i \in 1..Len(p.dangerous_commands) :
        WordSearch(command_lower, p.dangerous_commands[i])

\* the same loop with the protected name compared as configured, not lowered
RECURSIVE MatchProtectedNameCased(_, _, _)
MatchProtectedNameCased(p, process_name_lower, i) ==
  IF i > Len(p.protected_processes) THEN [protected |-> FALSE, reason |-> None]
  ELSE IF Contains(process_name_lower, p.protected_processes[i])
       THEN [protected |-> TRUE, reason |-> Msg("name", 0, p.protected_processes[i])]
       ELSE MatchProtectedNameCased(p, process_name_lower, i + 1)

\* "for protected in ...: if protected.lower() in process_name_lower"
RECURSIVE MatchProtectedName(_, _, _)
MatchProtectedName(p, process_name_lower, i) ==
  IF i > Len(p.protected_processes) THEN [protected |-> FALSE, reason |-> None]
  ELSE IF Contains(process_name_lower, Lower(p.protected_processes[i]))
       THEN [protected |-> TRUE, reason |-> Msg("name", 0, p.protected_processes[i])]
       ELSE MatchProtectedName(p, process_name_lower, i + 1)

\* psutil.Process(pid) raises ValueError for a negative pid, NoSuchProcess for
\* one that is not in the table
ProcEntry(t, pid) == IF pid \in DOMAIN t THEN t[pid] ELSE NoProc

\* is_protected_process
IsProtectedProcess(p, t, identifier) ==
  IF IsInt(identifier) /\ IntVal(identifier) \in p.protected_pids
  THEN [protected |-> TRUE, reason |-> Msg("pid", IntVal(identifier), <<>>)]
  ELSE IF IsInt(identifier) /\ IntVal(identifier) >= 0
       THEN (IF ProcEntry(t, IntVal(identifier)).state = "ok"
             THEN MatchProtectedName(p, Lower(ProcEntry(t, IntVal(identifier)).name), 1)
             ELSE [protected |-> FALSE, reason |-> None])
       ELSE MatchProtectedName(p, Lower(identifier), 1)

\* the processes whose name contains the identifier
MatchingProcesses(t, identifier) ==
  {pid \in DOMAIN t : t[pid].state = "ok" /\ Contains(Lower(t[pid].name), Lower(identifier))}

\* _get_process_info: exc is the exception that leaves the method
GetProcessInfo(t, identifier) ==
  IF IsInt(identifier) /\ IntVal(identifier) >= 0
  THEN (IF ProcEntry(t, IntVal(identifier)).state = "ok"
        THEN [exc |-> "none", info |-> Msg("pid", IntVal(identifier), <<>>)]
        ELSE [exc |-> "none", info |-> None])
  ELSE IF \E pid \in DOMAIN t : t[pid].state = "denied"
       THEN [exc |-> "AttributeError", info |-> None]
       ELSE IF MatchingProcesses(t, identifier) # {}
            THEN [exc |-> "none",
                  info |-> Msg("matching", Cardinality(MatchingProcesses(t, identifier)), <<>>)]
            ELSE [exc |-> "none", info |-> None]

Verdict(exc, is_safe, error, info) ==
  [exc |-> exc, is_safe |-> is_safe, error |-> error, info |-> info]

\* the same branch with the first argument taken for the target
ValidateKillFirstArg(p, t, tokens) ==
  IF Len(tokens) < 2 THEN Verdict("none", FALSE, Msg("notarget", 0, tokens[1]), None)
  ELSE LET target == tokens[2]
           prot == IsProtectedProcess(p, t, target)
           pinfo == GetProcessInfo(t, target)
       IN  IF prot.protected THEN Verdict("none", FALSE, prot.reason, None)
           ELSE IF pinfo.exc # "none" THEN Verdict(pinfo.exc, FALSE, None, None)
           ELSE Verdict("none", TRUE, None, pinfo.info)

\* the branch of validate_kill_command for kill, killall and pkill
ValidateKillTarget(p, t, tokens) ==
  IF Len(tokens) < 2 THEN Verdict("none", FALSE, Msg("notarget", 0, tokens[1]), None)
  ELSE LET target == tokens[Len(tokens)]
           prot == IsProtectedProcess(p, t, target)
           pinfo == GetProcessInfo(t, target)
       IN  IF prot.protected THEN Verdict("none", FALSE, prot.reason, None)
           ELSE IF pinfo.exc # "none" THEN Verdict(pinfo.exc, FALSE, None, None)
           ELSE Verdict("none", TRUE, None, pinfo.info)

\* the same branch looking at the action stop only
ValidateSystemctlStopOnly(p, t, tokens) ==
  IF Len(tokens) < 3 THEN Verdict("none", FALSE, Msg("incomplete", 0, <<>>), None)
  ELSE LET action == tokens[2]
           service == tokens[3]
           prot == IsProtectedProcess(p, t, Remove(service, <<".", "s", "e", "r", "v", "i", "c", "e">>))
       IN  IF action = <<"s", "t", "o", "p">>
           THEN (IF prot.protected THEN Verdict("none", FALSE, prot.reason, None)
                 ELSE Verdict("none", TRUE, None, Msg("service", 0, service)))
           ELSE Verdict("none", TRUE, None, None)

\* the branch of validate_kill_command for systemctl
ValidateSystemctl(p, t, tokens) ==
  IF Len(tokens) < 3 THEN Verdict("none", FALSE, Msg("incomplete", 0, <<>>), None)
  ELSE LET action == tokens[2]
           service == tokens[3]
           prot == IsProtectedProcess(p, t, Remove(service, <<".", "s", "e", "r", "v", "i", "c", "e">>))
       IN  IF action \in {<<"s", "t", "o", "p">>, <<"d", "i", "s", "a", "b", "l", "e">>, <<"m", "a", "s", "k">>}
           THEN (IF prot.protected THEN Verdict("none", FALSE, prot.reason, None)
                 ELSE Verdict("none", TRUE, None, Msg("service", 0, service)))
           ELSE Verdict("none", TRUE, None, None)

\* validate_kill_command
ValidateKillCommand(p, t, command) ==
  LET tokens == Split(command)
  IN  IF tokens = <<>> THEN Verdict("none", FALSE, Msg("empty", 0, <<>>), None)
      ELSE IF tokens[1] \in {<<"k", "i", "l", "l">>, <<"k", "i", "l", "l", "a", "l", "l">>, <<"p", "k", "i", "l", "l">>}
           THEN ValidateKillTarget(p, t, tokens)
      ELSE IF Contains(tokens[1], <<"s", "y", "s", "t", "e", "m", "c", "t", "l">>)
           THEN ValidateSystemctl(p, t, tokens)
      ELSE Verdict("none", TRUE, None, None)

\* "any(kill_cmd in command.lower() for kill_cmd in [...])"
IsKillVariant(command) ==
  \E kill_cmd \in {<<"k", "i", "l", "l">>, <<"k", "i", "l", "l", "a", "l", "l">>, <<"p", "k", "i", "l", "l">>, <<"s", "y", "s", "t", "e", "m", "c", "t", "l", " ", "s", "t", "o", "p">>} :
    Contains(Lower(command), kill_cmd)

Confirmation(exc, required, reason) ==
  [exc |-> exc, required |-> required, reason |-> reason]

\* "reason = 'This command will terminate processes' ..."
TerminateReason(info) ==
  IF info.kind = "matching" THEN Msg("terminate", info.n, <<>>)
  ELSE IF info.kind = "service" THEN Msg("terminate", 0, info.txt)
  ELSE Msg("terminate", 0, <<>>)

\* the same with the reason left out when there is no process information
RequiresConfirmationBareReason(p, t, command) ==
  IF ~p.require_confirmation THEN Confirmation("none", FALSE, None)
  ELSE IF IsDangerousCommand(p, command)
       THEN (IF IsKillVariant(command)
             THEN LET v == ValidateKillCommand(p, t, command)
                  IN  IF v.exc # "none" THEN Confirmation(v.exc, FALSE, None)
                      ELSE IF ~v.is_safe THEN Confirmation("none", TRUE, v.error)
                      ELSE IF v.info = None THEN Confirmation("none", TRUE, None)
                      ELSE Confirmation("none", TRUE, TerminateReason(v.info))
             ELSE Confirmation("none", TRUE, Msg("destructive", 0, <<>>)))
       ELSE Confirmation("none", FALSE, None)

\* requires_confirmation
RequiresConfirmation(p, t, command) ==
  IF ~p.require_confirmation THEN Confirmation("none", FALSE, None)
  ELSE IF IsDangerousCommand(p, command)
       THEN (IF IsKillVariant(command)
             THEN LET v == ValidateKillCommand(p, t, command)
                  IN  IF v.exc # "none" THEN Confirmation(v.exc, FALSE, None)
                      ELSE IF ~v.is_safe THEN Confirmation("none", TRUE, v.error)
                      ELSE Confirmation("none", TRUE, TerminateReason(v.info))
             ELSE Confirmation("none", TRUE, Msg("destructive", 0, <<>>)))
       ELSE Confirmation("none", FALSE, None)

(***************************************************************************)
(* Settings: the SafetyConfig section, its defaults, loading and updating. *)
(***************************************************************************)
\* SafetyConfig.protected_processes, default_factory
DefaultProtectedProcesses ==
  <<<<"s", "y", "s", "t", "e", "m", "d">>, <<"i", "n", "i", "t">>, <<"s", "s", "h", "d">>, <<"N", "e", "t", "w", "o", "r", "k", "M", "a", "n", "a", "g", "e", "r">>, <<"d", "b", "u", "s", "-", "d", "a", "e", "m", "o", "n">>>>

\* SafetyConfig.dangerous_commands, default_factory
DefaultDangerousCommands ==
  <<<<"r", "m">>, <<"k", "i", "l", "l">>, <<"k", "i", "l", "l", "a", "l", "l">>, <<"p", "k", "i", "l", "l">>, <<"s", "y", "s", "t", "e", "m", "c", "t", "l", " ", "s", "t", "o", "p">>,
    <<"s", "y", "s", "t", "e", "m", "c", "t", "l", " ", "d", "i", "s", "a", "b", "l", "e">>, <<"s", "y", "s", "t", "e", "m", "c", "t", "l", " ", "m", "a", "s", "k">>, <<"r", "e", "b", "o", "o", "t">>, <<"s", "h", "u", "t", "d", "o", "w", "n">>, <<"p", "o", "w", "e", "r", "o", "f", "f">>>>

\* a dangerous_commands list a user configures, one entry in capitals
CustomDangerousCommands == <<<<"k", "i", "l", "l">>, <<"R", "M">>>>

\* SafetyConfig()
DefaultSafety ==
  [require_confirmation |-> TRUE,
   protected_processes |-> DefaultProtectedProcesses,
   protected_pids |-> {1},
   dangerous_commands |-> DefaultDangerousCommands]

SafetyKeys == DOMAIN DefaultSafety

\* the values a configuration file or an update gives to a key of the section
SafetyValues(key) ==
  CASE key = "require_confirmation" -> BOOLEAN
    [] key = "protected_processes" -> {DefaultProtectedProcesses, <<>>}
    [] key = "protected_pids" -> {{1}, {}}
    [] key = "dangerous_commands" -> {DefaultDangerousCommands, CustomDangerousCommands}

\* the "safety" mapping of a configuration file: the keys it gives
SafetySections ==
  {[require_confirmation |-> FALSE],
   [protected_pids |-> {}],
   [protected_processes |-> <<>>],
   [protected_pids |-> {}, protected_processes |-> <<>>],
   [dangerous_commands |-> DefaultDangerousCommands]}

\* the file load_from_yaml reads; wellTyped is whether every value has the
\* type its field declares (pydantic raises ValidationError otherwise)
ConfigFiles == [wellTyped : BOOLEAN, section : SafetySections]

\* Settings.load_from_yaml: cls(**config_data); a key the file does not give
\* takes the default of its field, a key it gives is taken as it is
LoadFromYaml(file) ==
  [k \in SafetyKeys |->
     IF k \in DOMAIN file.section THEN file.section[k] ELSE DefaultSafety[k]]

\* the process tables psutil may see
Tables ==
  {[pid \in Pids |-> CASE pid = 1 -> Proc(<<"s", "y", "s", "t", "e", "m", "d">>)
                       [] pid = 7 -> a
                       [] OTHER -> b] :
     a \in {NoProc, HiddenProc}, b \in {Proc(<<"n", "g", "i", "n", "x">>), Proc(<<"s", "s", "h", "d">>)}}

(***************************************************************************)
(* The commands and identifiers handed to the validator.                   *)
(***************************************************************************)
Heads == {<<"k", "i", "l", "l">>, <<"k", "i", "l", "l", "a", "l", "l">>, <<"p", "k", "i", "l", "l">>, <<"s", "y", "s", "t", "e", "m", "c", "t", "l">>, <<"r", "m">>}

Args == {<<"-", "9">>, <<"1">>, <<"4", "2">>, <<"n", "g", "i", "n", "x">>, <<"s", "s", "h", "d", ".", "s", "e", "r", "v", "i", "c", "e">>, <<"s", "t", "o", "p">>, <<"d", "i", "s", "a", "b", "l", "e">>, <<"s", "t", "a", "t", "u", "s">>}

ArgLists == UNION {[1..n -> Args] : n \in 0..MaxArgs}

\* a head followed by at most MaxArgs arguments, separated by one space
Commands == {Join(<<h>> \o a) : h \in Heads, a \in ArgLists}

Identifiers == Args \cup {<<"n", "e", "t", "w", "o", "r", "k", "m", "a", "n", "a", "g", "e", "r">>, <<"7">>, <<"s", "y", "s", "t", "e", "m", "d">>, <<"S", "S", "H", "D">>, <<"-", "1">>}

(***************************************************************************)
(* The settings singleton, SafetyValidator's operations as calls, and      *)
(* process_query of the command line.                                      *)
(***************************************************************************)
NoCall == [op |-> "none", arg |-> <<>>, out |-> None]

\* asked: the prompt was shown; answer: what the user typed at it
NoQuery == [pc |-> "idle", command |-> <<>>, reason |-> None, asked |-> FALSE,
            answer |-> <<>>]

\* the state of the safety side while only the executor is looked at
SafetyIdle ==
  /\ loaded = "yes"
  /\ safety = DefaultSafety
  /\ procs = [pid \in Pids |-> IF pid = 1 THEN Proc(<<"s", "y", "s", "t", "e", "m", "d">>) ELSE NoProc]
  /\ call = NoCall
  /\ query = NoQuery

(***************************************************************************)
(* CommandResult and the pure parts of execute().                          *)
(***************************************************************************)
NoResult == <<>>

\* CommandResult.success
Success(r) == r.returncode = 0 /\ ~r.timed_out

\* cwd = settings.execution.working_directory or os.getcwd(); os.getcwd()
\* raises FileNotFoundError when the current directory has been removed
ResolveCwd(arg) ==
  IF arg # "none" THEN arg
  ELSE IF settings.working_directory # "none" THEN settings.working_directory
  ELSE IF cwdExists THEN "valid" ELSE "raise"

\* the result of the dry-run branch
DryRunResult(cwd) ==
  [returncode |-> 0, stdout |-> DryRunMsg, stderr |-> Empty, execution_time |-> 0,
   timed_out |-> FALSE, truncated |-> FALSE, cwd |-> cwd, path |-> "dry"]

\* the result built by the handler of "except Exception"
ErrorResult(cwd, execution_time) ==
  [returncode |-> 1, stdout |-> Empty, stderr |-> ErrorMsg, execution_time |-> execution_time,
   timed_out |-> FALSE, truncated |-> FALSE, cwd |-> cwd, path |-> "except"]

\* the share of stdout rounded up instead of down
StdoutLimitCeil(max_size, out, err) ==
  (max_size * Len_(out) + Len_(out) + Len_(err) - 1) \div (Len_(out) + Len_(err))

\* stdout_limit = int(max_size * len(stdout) / total_output_size)
StdoutLimit(max_size, out, err) ==
  (max_size * Len_(out)) \div (Len_(out) + Len_(err))

\* the limit put on stdout alone, stderr passed on as it came
TruncateStdoutOnly(out, err, max_size) ==
  IF Len_(out) + Len_(err) > max_size
  THEN [stdout |-> WithMarker(Prefix(out, max_size)), stderr |-> err, truncated |-> TRUE]
  ELSE [stdout |-> out, stderr |-> err, truncated |-> FALSE]

\* "Enforce output size limit"
Truncate(out, err, max_size) ==
  IF Len_(out) + Len_(err) > max_size
  THEN LET stdout_limit == StdoutLimit(max_size, out, err)
           stderr_limit == max_size - stdout_limit
       IN  [stdout |-> WithMarker(Prefix(out, stdout_limit)),
            stderr |-> WithMarker(Prefix(err, stderr_limit)),
            truncated |-> TRUE]
  ELSE [stdout |-> out, stderr |-> err, truncated |-> FALSE]

\* the exit code taken from the timeout flag alone
ReturnCodeFromFlag(rc, to) == IF to THEN TimeoutCode ELSE 0

\* returncode=process.returncode or (124 if timed_out else 0)
ReturnCode(rc, to) ==
  IF rc = {} \/ rc = {0}
  THEN (IF to THEN TimeoutCode ELSE 0)
  ELSE CHOOSE v \in rc : TRUE

\* process.returncode: None ({}) until the event loop has reaped the shell
ProcessReturncode(c) == IF leader[c] = "reaped" THEN exitStatus[c] ELSE {}

\* the CommandResult built on the normal and the timed-out path; decoded
\* keeps the two streams as they were decoded, before the size limit
MakeResult(c, out, err, to, cwd, execution_time) ==
  LET t == Truncate(out, err, settings.max_output_size)
  IN  [returncode |-> ReturnCode(ProcessReturncode(c), to),
       stdout |-> t.stdout, stderr |-> t.stderr, execution_time |-> execution_time,
       timed_out |-> to, truncated |-> t.truncated, cwd |-> cwd, path |-> "try",
       decoded |-> [stdout |-> out, stderr |-> err]]

\* the same with the line put at the head of the file
LogCommandAtHead(c, r, writeOk) ==
  IF settings.log_commands
  THEN <<[call |-> c, status |-> IF Success(r) THEN "SUCCESS" ELSE "FAILED",
          written |-> writeOk]>> \o history
  ELSE history

\* _log_command: nothing when logging is off; otherwise one write of one
\* line, which the file keeps unless open() or write() raised
LogCommand(c, r, writeOk) ==
  IF settings.log_commands
  THEN Append(history, [call |-> c, status |-> IF Success(r) THEN "SUCCESS" ELSE "FAILED",
                        written |-> writeOk])
  ELSE history

\* the lines of the history file
HistoryFile == SelectSeq(history, LAMBDA line : line.written)

\* the same with a failed write left to propagate out of execute
LogAndReturnRaising(c, r, writeOk) ==
  /\ result' = [result EXCEPT ![c] = IF writeOk \/ ~settings.log_commands THEN r ELSE @]
  /\ history' = LogCommand(c, r, writeOk)
  /\ pc' = [pc EXCEPT ![c] = IF writeOk \/ ~settings.log_commands THEN "done" ELSE "raised"]

\* execution_time = loop.time() - start_time: start_time is read before the
\* shell is started, the countdown begins when wait_for is entered, and the
\* clock is read again after the output has been decoded and cut
ExecutionTimes(waited) == {starting + w + after : starting \in delays, w \in waited, after \in delays}

\* "self._log_command(command, result); return result"
LogAndReturn(c, r, writeOk) ==
  /\ result' = [result EXCEPT ![c] = r]
  /\ history' = LogCommand(c, r, writeOk)
  /\ pc' = [pc EXCEPT ![c] = "done"]

\* process.communicate() can finish: both pipes at EOF and the shell reaped
CommunicateReady(c) == leader[c] = "reaped" /\ desc[c] # "running"

(***************************************************************************)
(* execute(): the coroutine, one action per stretch between suspensions.   *)
(***************************************************************************)
\* every configuration of the fields the executor reads
ExecSettings ==
  [log_commands : BOOLEAN, max_output_size : MaxOutputSizes, working_directory : Dirs]

\* Settings() as built from the defaults, command logging on or off
DefaultExecSettings ==
  [log_commands : BOOLEAN, max_output_size : {DefaultMaxOutputSize},
   working_directory : {"none"}]

\* CommandExecutor(settings) and the calls cs submitted to it
ExecInitWith(cs, ss, ls, ds) ==
  /\ settings \in ss
  /\ outLens = ls
  /\ delays = ds
  /\ cwdExists \in BOOLEAN
  /\ dryRun \in [cs -> BOOLEAN]
  /\ pc = [c \in cs |-> "idle"]
  /\ leader = [c \in cs |-> "none"]
  /\ desc = [c \in cs |-> "none"]
  /\ priv = [c \in cs |-> FALSE]
  /\ exitStatus = [c \in cs |-> {}]
  /\ workdir = [c \in cs |-> "none"]
  /\ timed_out = [c \in cs |-> FALSE]
  /\ reads = [c \in cs |-> 0]
  /\ readTimedOut = [c \in cs |-> FALSE]
  /\ killTried = [c \in cs |-> FALSE]
  /\ killed = [c \in cs |-> {}]
  /\ spawns = [c \in cs |-> 0]
  /\ result = [c \in cs |-> NoResult]
  /\ history = <<>>

\* one call, under every configuration
ExecInit == ExecInitWith({"c1"}, ExecSettings, 0..MaxLen, 0..MaxDelay) /\ SafetyIdle

\* two concurrent calls on one executor
ConcInit == ExecInitWith({"c1", "c2"}, DefaultExecSettings, {0, MaxLen}, {0}) /\ SafetyIdle

\* os.getcwd() fails outside the try block: the exception reaches the caller
ExecuteRaises(c) ==
  /\ pc[c] = "idle"
  /\ \E arg \in Dirs :
       /\ ResolveCwd(arg) = "raise"
       /\ pc' = [pc EXCEPT ![c] = "raised"]
  /\ UNCHANGED safetyVars
  /\ UNCHANGED <<settings, cwdExists, outLens, delays, dryRun, leader, desc, priv, exitStatus, workdir,
                 timed_out, reads, readTimedOut, killTried, killed, spawns, result, history>>

\* dry_run=True: the synthetic result, no process and no log line
ExecuteDryRun(c) ==
  /\ pc[c] = "idle" /\ dryRun[c]
  /\ \E arg \in Dirs :
       /\ ResolveCwd(arg) # "raise"
       /\ workdir' = [workdir EXCEPT ![c] = ResolveCwd(arg)]
       /\ result' = [result EXCEPT ![c] = DryRunResult(ResolveCwd(arg))]
       /\ pc' = [pc EXCEPT ![c] = "done"]
  /\ UNCHANGED safetyVars
  /\ UNCHANGED <<settings, cwdExists, outLens, delays, dryRun, leader, desc, priv, exitStatus,
                 timed_out, reads, readTimedOut, killTried, killed, spawns, history>>

\* create_subprocess_shell succeeds: the shell leads a new session and group
\* (preexec_fn=os.setsid); what it runs may fork into the group and may run
\* under another uid
ExecuteSpawn(c) ==
  /\ pc[c] = "idle" /\ ~dryRun[c]
  /\ \E arg \in Dirs, forks \in BOOLEAN, other \in BOOLEAN :
       /\ ResolveCwd(arg) = "valid"
       /\ workdir' = [workdir EXCEPT ![c] = "valid"]
       /\ leader' = [leader EXCEPT ![c] = "running"]
       /\ desc' = [desc EXCEPT ![c] = IF forks THEN "running" ELSE "none"]
       /\ priv' = [priv EXCEPT ![c] = other]
  /\ spawns' = [spawns EXCEPT ![c] = @ + 1]
  /\ pc' = [pc EXCEPT ![c] = "waiting"]
  /\ UNCHANGED safetyVars
  /\ UNCHANGED <<settings, cwdExists, outLens, delays, dryRun, exitStatus, timed_out, reads,
                 readTimedOut, killTried, killed, result, history>>

\* the same failure answered by another attempt instead of a result
ExecuteSpawnFailsRetry(c) ==
  /\ pc[c] = "idle" /\ ~dryRun[c]
  /\ \E arg \in Dirs : ResolveCwd(arg) \in {"valid", "missing"}
  /\ spawns' = [spawns EXCEPT ![c] = @ + 1]
  /\ UNCHANGED safetyVars
  /\ UNCHANGED <<settings, cwdExists, outLens, delays, dryRun, pc, leader, desc, priv,
                 exitStatus, workdir, timed_out, reads, readTimedOut, killTried, killed,
                 result, history>>

\* create_subprocess_shell raises (missing cwd, permission, no shell): the
\* handler of "except Exception" builds the result
ExecuteSpawnFails(c) ==
  /\ pc[c] = "idle" /\ ~dryRun[c]
  /\ \E arg \in Dirs, writeOk \in BOOLEAN :
       /\ ResolveCwd(arg) \in {"valid", "missing"}
       /\ workdir' = [workdir EXCEPT ![c] = ResolveCwd(arg)]
       /\ \E execution_time \in delays :
            LogAndReturn(c, ErrorResult(ResolveCwd(arg), execution_time), writeOk)
  /\ spawns' = [spawns EXCEPT ![c] = @ + 1]
  /\ UNCHANGED safetyVars
  /\ UNCHANGED <<settings, cwdExists, outLens, delays, dryRun, leader, desc, priv, exitStatus,
                 timed_out, reads, readTimedOut, killTried, killed>>

\* ---- the child's process group (environment) ----
Live(c) == pc[c] \in {"waiting", "reading"}

\* the shell ends on its own
LeaderExits(c) ==
  /\ Live(c) /\ leader[c] = "running"
  /\ \E s \in ExitCodes : exitStatus' = [exitStatus EXCEPT ![c] = {s}]
  /\ leader' = [leader EXCEPT ![c] = "exited"]
  /\ UNCHANGED safetyVars
  /\ UNCHANGED <<settings, cwdExists, outLens, delays, dryRun, pc, desc, priv, workdir, timed_out,
                 reads, readTimedOut, killTried, killed, spawns, result, history>>

\* the event loop's child watcher waits for the shell: its pid is released
\* and process.returncode is set
Reap(c) ==
  /\ Live(c) /\ leader[c] = "exited"
  /\ leader' = [leader EXCEPT ![c] = "reaped"]
  /\ UNCHANGED safetyVars
  /\ UNCHANGED <<settings, cwdExists, outLens, delays, dryRun, pc, desc, priv, exitStatus, workdir,
                 timed_out, reads, readTimedOut, killTried, killed, spawns, result, history>>

\* the descendant ends on its own and lets go of the pipes
DescExits(c) ==
  /\ Live(c) /\ desc[c] = "running"
  /\ desc' = [desc EXCEPT ![c] = "dead"]
  /\ UNCHANGED safetyVars
  /\ UNCHANGED <<settings, cwdExists, outLens, delays, dryRun, pc, leader, priv, exitStatus, workdir,
                 timed_out, reads, readTimedOut, killTried, killed, spawns, result, history>>

\* ---- await asyncio.wait_for(process.communicate(), timeout=timeout) ----
\* communicate() finishes first
Complete(c) ==
  /\ pc[c] = "waiting" /\ CommunicateReady(c)
  /\ \E o \in outLens, e \in outLens, writeOk \in BOOLEAN,
        execution_time \in ExecutionTimes(0..(Timeout - 1)) :
       LogAndReturn(c, MakeResult(c, Str("child", o), Str("child", e), timed_out[c],
                                  workdir[c], execution_time), writeOk)
  /\ UNCHANGED safetyVars
  /\ UNCHANGED <<settings, cwdExists, outLens, delays, dryRun, leader, desc, priv, exitStatus, workdir,
                 timed_out, reads, readTimedOut, killTried, killed, spawns>>

\* os.getpgid(process.pid) raises ProcessLookupError once the pid is released
PidExists(c) == leader[c] \in {"running", "exited"}

\* the countdown fires first; os.killpg(os.getpgid(process.pid), 9) signals
\* the group: every member dies, the shell with status -9
TimeoutKills(c) ==
  /\ pc[c] = "waiting" /\ ~CommunicateReady(c)
  /\ PidExists(c) /\ ~priv[c]
  /\ timed_out' = [timed_out EXCEPT ![c] = TRUE]
  /\ killed' = [killed EXCEPT ![c] = @ \cup {c}]
  /\ IF leader[c] = "running"
     THEN /\ leader' = [leader EXCEPT ![c] = "exited"]
          /\ exitStatus' = [exitStatus EXCEPT ![c] = {-SigKill}]
     ELSE UNCHANGED <<leader, exitStatus>>
  /\ desc' = [desc EXCEPT ![c] = IF @ = "running" THEN "dead" ELSE @]
  /\ killTried' = [killTried EXCEPT ![c] = TRUE]
  /\ pc' = [pc EXCEPT ![c] = "reading"]
  /\ UNCHANGED safetyVars
  /\ UNCHANGED <<settings, cwdExists, outLens, delays, dryRun, priv, workdir, reads, readTimedOut,
                 spawns, result, history>>

\* the countdown fires first; the pid is gone: ProcessLookupError is passed
\* over and no signal is sent
TimeoutNoProcess(c) ==
  /\ pc[c] = "waiting" /\ ~CommunicateReady(c)
  /\ ~PidExists(c)
  /\ timed_out' = [timed_out EXCEPT ![c] = TRUE]
  /\ killTried' = [killTried EXCEPT ![c] = TRUE]
  /\ pc' = [pc EXCEPT ![c] = "reading"]
  /\ UNCHANGED safetyVars
  /\ UNCHANGED <<settings, cwdExists, outLens, delays, dryRun, leader, desc, priv, exitStatus, workdir,
                 reads, readTimedOut, killed, spawns, result, history>>

\* the countdown fires first; killpg is refused (PermissionError), which only
\* the outer "except Exception" catches
TimeoutKillRefused(c) ==
  /\ pc[c] = "waiting" /\ ~CommunicateReady(c)
  /\ PidExists(c) /\ priv[c]
  /\ timed_out' = [timed_out EXCEPT ![c] = TRUE]
  /\ killTried' = [killTried EXCEPT ![c] = TRUE]
  /\ \E writeOk \in BOOLEAN, execution_time \in ExecutionTimes({Timeout}) :
       LogAndReturn(c, ErrorResult(workdir[c], execution_time), writeOk)
  /\ UNCHANGED safetyVars
  /\ UNCHANGED <<settings, cwdExists, outLens, delays, dryRun, leader, desc, priv, exitStatus, workdir,
                 reads, readTimedOut, killed, spawns>>

\* ---- await asyncio.wait_for(process.communicate(), timeout=1.0) ----
SecondReadCompletes(c) ==
  /\ pc[c] = "reading" /\ CommunicateReady(c)
  /\ reads' = [reads EXCEPT ![c] = @ + 1]
  /\ \E o \in outLens, e \in outLens, writeOk \in BOOLEAN,
        execution_time \in ExecutionTimes({Timeout + d : d \in delays}) :
       LogAndReturn(c, MakeResult(c, Str("child", o), Str("child", e), timed_out[c],
                                  workdir[c], execution_time), writeOk)
  /\ UNCHANGED safetyVars
  /\ UNCHANGED <<settings, cwdExists, outLens, delays, dryRun, leader, desc, priv, exitStatus, workdir,
                 timed_out, readTimedOut, killTried, killed, spawns>>

SecondReadTimesOut(c) ==
  /\ pc[c] = "reading" /\ ~CommunicateReady(c)
  /\ reads' = [reads EXCEPT ![c] = @ + 1]
  /\ \E writeOk \in BOOLEAN, execution_time \in ExecutionTimes({Timeout + MaxDelay}) :
       LogAndReturn(c, MakeResult(c, Empty, FixedMsg, timed_out[c], workdir[c],
                                  execution_time), writeOk)
  /\ readTimedOut' = [readTimedOut EXCEPT ![c] = TRUE]
  /\ UNCHANGED safetyVars
  /\ UNCHANGED <<settings, cwdExists, outLens, delays, dryRun, leader, desc, priv, exitStatus, workdir,
                 timed_out, killTried, killed, spawns>>

\* the caller cancels the task at one of the two awaits: CancelledError is a
\* BaseException, no handler of execute() catches it and there is no finally
Cancel(c) ==
  /\ Live(c)
  /\ pc' = [pc EXCEPT ![c] = "cancelled"]
  /\ UNCHANGED safetyVars
  /\ UNCHANGED <<settings, cwdExists, outLens, delays, dryRun, leader, desc, priv, exitStatus, workdir,
                 timed_out, reads, readTimedOut, killTried, killed, spawns, result, history>>

ExecNext ==
  \/ \E c \in Calls : ExecuteRaises(c)
  \/ \E c \in Calls : ExecuteDryRun(c)
  \/ \E c \in Calls : ExecuteSpawn(c)
  \/ \E c \in Calls : ExecuteSpawnFails(c)
  \/ \E c \in Calls : LeaderExits(c)
  \/ \E c \in Calls : Reap(c)
  \/ \E c \in Calls : DescExits(c)
  \/ \E c \in Calls : Complete(c)
  \/ \E c \in Calls : TimeoutKills(c)
  \/ \E c \in Calls : TimeoutNoProcess(c)
  \/ \E c \in Calls : TimeoutKillRefused(c)
  \/ \E c \in Calls : SecondReadCompletes(c)
  \/ \E c \in Calls : SecondReadTimesOut(c)
  \/ \E c \in Calls : Cancel(c)

SpecExec == ExecInit /\ [][ExecNext]_vars

SpecConc == ConcInit /\ [][ExecNext]_vars

\* no call of execute() is followed here: execute has its own specifications
NoExecCalls ==
  /\ ExecInitWith({}, {[log_commands |-> TRUE, max_output_size |-> DefaultMaxOutputSize,
                        working_directory |-> "none"]}, {0}, {0})
  /\ cwdExists

\* before get_settings() has run: no Settings object, no query, no call
SafetyInit ==
  /\ NoExecCalls
  /\ loaded = "no"
  /\ safety = DefaultSafety
  /\ procs \in Tables
  /\ call = NoCall
  /\ query = NoQuery

\* get_settings(): the first use loads the file and keeps the object
GetSettings ==
  /\ loaded = "no"
  /\ \E file \in ConfigFiles :
       /\ file.wellTyped
       /\ safety' = LoadFromYaml(file)
  /\ loaded' = "yes"
  /\ UNCHANGED <<procs, call, query>>
  /\ UNCHANGED execVars

\* get_settings(): pydantic refuses an ill-typed value, nothing is kept
GetSettingsFails ==
  /\ loaded = "no"
  /\ \E file \in ConfigFiles : ~file.wellTyped
  /\ loaded' = "failed"
  /\ UNCHANGED <<safety, procs, call, query>>
  /\ UNCHANGED execVars

\* Settings.update_setting("safety.<key>", value): setattr, no validation
UpdateSetting ==
  /\ loaded = "yes" /\ call = NoCall /\ query = NoQuery
  /\ \E key \in SafetyKeys : \E value \in SafetyValues(key) :
       /\ safety[key] # value
       /\ safety' = [safety EXCEPT ![key] = value]
  /\ UNCHANGED <<loaded, procs, call, query>>
  /\ UNCHANGED execVars

\* processes start, end and change between two operations of the validator
\* and while process_query waits for the user
ProcessTableChanges ==
  /\ call = NoCall
  /\ \E t \in Tables : t # procs /\ procs' = t
  /\ UNCHANGED <<loaded, safety, call, query>>
  /\ UNCHANGED execVars

Ready == loaded = "yes" /\ call = NoCall /\ query = NoQuery

IsDangerousCall ==
  /\ Ready
  /\ \E command \in Commands :
       call' = [op |-> "is_dangerous_command", arg |-> command,
                out |-> IsDangerousCommand(safety, command)]
  /\ UNCHANGED <<loaded, safety, procs, query>>
  /\ UNCHANGED execVars

\* the same call keeping the name it was asked about among the protected ones
IsProtectedCallLearning ==
  /\ Ready
  /\ \E identifier \in Identifiers :
       /\ call' = [op |-> "is_protected_process", arg |-> identifier,
                   out |-> IsProtectedProcess(safety, procs, identifier)]
       /\ safety' = [safety EXCEPT !.protected_processes = Append(@, identifier)]
  /\ UNCHANGED <<loaded, procs, query>>
  /\ UNCHANGED execVars

IsProtectedCall ==
  /\ Ready
  /\ \E identifier \in Identifiers :
       call' = [op |-> "is_protected_process", arg |-> identifier,
                out |-> IsProtectedProcess(safety, procs, identifier)]
  /\ UNCHANGED <<loaded, safety, procs, query>>
  /\ UNCHANGED execVars

ValidateKillCall ==
  /\ Ready
  /\ \E command \in Commands :
       call' = [op |-> "validate_kill_command", arg |-> command,
                out |-> ValidateKillCommand(safety, procs, command)]
  /\ UNCHANGED <<loaded, safety, procs, query>>
  /\ UNCHANGED execVars

RequiresConfirmationCall ==
  /\ Ready
  /\ \E command \in Commands :
       call' = [op |-> "requires_confirmation", arg |-> command,
                out |-> RequiresConfirmation(safety, procs, command)]
  /\ UNCHANGED <<loaded, safety, procs, query>>
  /\ UNCHANGED execVars

\* the caller has taken the value (or the exception) of the call
CallReturns ==
  /\ call # NoCall
  /\ call' = NoCall
  /\ UNCHANGED <<loaded, safety, procs, query>>
  /\ UNCHANGED execVars

\* ---- process_query (cli/main.py) ----
\* what the user types at the prompt; nothing is the default answer
Answers == {<<"y">>, <<"Y", "E", "S">>, <<"n">>, <<>>}

\* the same with no answer taken for consent
ConfirmActionEmptyIsYes(answer, default) ==
  LET response == Lower(Strip(answer))
  IN  response \in {<<>>, <<"y">>, <<"y", "e", "s">>}

\* confirm_action(message, default)
ConfirmAction(answer, default) ==
  LET response == Lower(Strip(answer))
  IN  IF response = <<>> THEN default ELSE response \in {<<"y">>, <<"y", "e", "s">>}

\* "print_command(command); if dry_run: return; executor.execute_sync(command)"
AfterSafetyCheck(q, dry_run) == [q EXCEPT !.pc = IF dry_run THEN "dry_run" ELSE "executing"]

\* the coordinator has returned a rule-based command; requires_confirmation
\* is evaluated and answers that none is required
QueryNotConfirmed ==
  /\ Ready
  /\ \E command \in Commands, dry_run \in BOOLEAN :
       LET c == RequiresConfirmation(safety, procs, command)
       IN  /\ c.exc = "none" /\ ~c.required
           /\ query' = AfterSafetyCheck([NoQuery EXCEPT !.command = command], dry_run)
  /\ UNCHANGED <<loaded, safety, procs, call>>
  /\ UNCHANGED execVars

\* requires_confirmation answers that confirmation is required: the reason
\* and the command are printed and the user is asked
QueryPrompts ==
  /\ Ready
  /\ \E command \in Commands :
       LET c == RequiresConfirmation(safety, procs, command)
       IN  /\ c.exc = "none" /\ c.required
           /\ query' = [NoQuery EXCEPT !.pc = "prompt", !.command = command,
                                       !.reason = c.reason, !.asked = TRUE]
  /\ UNCHANGED <<loaded, safety, procs, call>>
  /\ UNCHANGED execVars

\* requires_confirmation raises: "except Exception" reports and exits with 1
QueryFails ==
  /\ Ready
  /\ \E command \in Commands :
       /\ RequiresConfirmation(safety, procs, command).exc # "none"
       /\ query' = [NoQuery EXCEPT !.pc = "failed", !.command = command]
  /\ UNCHANGED <<loaded, safety, procs, call>>
  /\ UNCHANGED execVars

\* the user confirms
QueryConfirmed ==
  /\ query.pc = "prompt"
  /\ \E answer \in Answers, dry_run \in BOOLEAN :
       /\ ConfirmAction(answer, FALSE)
       /\ query' = AfterSafetyCheck([query EXCEPT !.answer = answer], dry_run)
  /\ UNCHANGED <<loaded, safety, procs, call>>
  /\ UNCHANGED execVars

\* the user declines or gives no answer: "Command execution cancelled"
QueryDeclined ==
  /\ query.pc = "prompt"
  /\ \E answer \in Answers :
       /\ ~ConfirmAction(answer, FALSE)
       /\ query' = [query EXCEPT !.pc = "cancelled", !.answer = answer]
  /\ UNCHANGED <<loaded, safety, procs, call>>
  /\ UNCHANGED execVars

\* process_query is over; the next query starts from nothing
QueryEnds ==
  /\ query.pc \in {"executing", "dry_run", "cancelled", "failed"}
  /\ query' = NoQuery
  /\ UNCHANGED <<loaded, safety, procs, call>>
  /\ UNCHANGED execVars

SafetyNext ==
  \/ GetSettings
  \/ GetSettingsFails
  \/ UpdateSetting
  \/ ProcessTableChanges
  \/ IsDangerousCall
  \/ IsProtectedCall
  \/ ValidateKillCall
  \/ RequiresConfirmationCall
  \/ CallReturns
  \/ QueryNotConfirmed
  \/ QueryPrompts
  \/ QueryFails
  \/ QueryConfirmed
  \/ QueryDeclined
  \/ QueryEnds

SpecSafety == SafetyInit /\ [][SafetyNext]_vars

(***************************************************************************)
(* Claims about execute().                                                 *)
(***************************************************************************)
Returned(c) == pc[c] = "done"

\* the child could not be started: a spawn was attempted and there is no shell
SpawnFailed(c) == spawns[c] = 1 /\ leader[c] = "none"

GroupRunning(c) == leader[c] = "running" \/ desc[c] = "running"

\* C1: every call of execute returns a CommandResult and lets no spawn or I/O
\* failure reach its caller; when the child cannot be started the result has
\* exit_code 1, empty stdout, the error text in stderr, timed_out false, and
\* no child is left running.
C1_FailuresAreCaptured ==
  \A c \in Calls :
    /\ pc[c] # "raised"
    /\ Returned(c) /\ SpawnFailed(c) =>
         /\ result[c].returncode = 1
         /\ result[c].stdout = Empty
         /\ result[c].stderr = ErrorMsg
         /\ ~result[c].timed_out
         /\ ~GroupRunning(c)

\* the case of C1 that the code does handle: a failed spawn has returned
C1_SpawnFailureReturned ==
  \E c \in Calls : Returned(c) /\ SpawnFailed(c) /\ result[c].returncode = 1

\* C2: whenever the countdown fired before the child completed, the result
\* returned has timed_out true and succeeded false, whatever happened while
\* the child was terminated or its remaining output read.
C2_TimeoutIsReported ==
  \A c \in Calls :
    Returned(c) /\ timed_out[c] => result[c].timed_out /\ ~Success(result[c])

\* C3: every result with timed_out true has exit_code 124.
C3_TimedOutExitCode ==
  \A c \in Calls :
    Returned(c) /\ result[c].timed_out => result[c].returncode = TimeoutCode

\* C4: once a call has returned with timed_out true, the kill signal went to
\* the process group of its own child and to no group of another call, and no
\* process of its group (the shell or a descendant forked into the group) is
\* still running.
C4_GroupTerminated ==
  \A c \in Calls :
    Returned(c) /\ result[c].timed_out =>
      /\ killed[c] = {c}
      /\ ~GroupRunning(c)

\* C5: after the countdown has fired the call makes exactly one further
\* bounded read, and if that read times out too the result has stdout empty
\* and stderr equal to "Command timed out and was terminated".
C5_OneBoundedRead ==
  \A c \in Calls :
    Returned(c) /\ timed_out[c] =>
      /\ reads[c] = 1
      /\ readTimedOut[c] =>
           result[c].stdout = Empty /\ result[c].stderr = FixedMsg

\* C6: a call cancelled while its child is running has attempted to terminate
\* the child's process group before giving up, and no child of it remains
\* running.
C6_CancelTerminatesGroup ==
  \A c \in Calls :
    pc[c] = "cancelled" => killTried[c] /\ ~GroupRunning(c)

(***************************************************************************)
(* Claims about process_query, SafetyValidator and the protection policy.  *)
(***************************************************************************)
\* the policy is in force: get_settings() has returned a Settings object
PolicyLoaded == loaded = "yes"

\* the verdict validate_kill_command gives now: unsafe because of protection
TargetsProtected(command) ==
  LET v == ValidateKillCommand(safety, procs, command)
  IN  v.exc = "none" /\ ~v.is_safe /\ v.error.kind \in {"pid", "name"}

\* process_query has reached executor.execute_sync(command)
HandedToExecutor == query.pc = "executing"

C8_ConfirmationDecision ==
  call.op = "requires_confirmation" =>
    /\ call.out.exc = "none"
    /\ call.out.required
         = (safety.require_confirmation /\ IsDangerousCommand(safety, call.arg))
    /\ ~safety.require_confirmation => call.out.reason = None

\* the decision of C8 wherever requires_confirmation does return
C8_DecisionWhenReturned ==
  call.op = "requires_confirmation" /\ call.out.exc = "none" =>
    /\ call.out.required
         = (safety.require_confirmation /\ IsDangerousCommand(safety, call.arg))
    /\ ~safety.require_confirmation => call.out.reason = None

\* the case of C8: a dangerous command, the flag true, confirmation reported
C8_DangerousReported ==
  /\ call.op = "requires_confirmation" /\ call.out.exc = "none"
  /\ safety.require_confirmation /\ IsDangerousCommand(safety, call.arg)
  /\ call.out.required

\* a command of a shape validate_kill_command specialises: kill, killall or
\* pkill, or systemctl with the action stop, disable or mask
Specialised(command) ==
  LET tokens == Split(command)
  IN  /\ tokens # <<>>
      /\ \/ tokens[1] \in {<<"k", "i", "l", "l">>, <<"k", "i", "l", "l", "a", "l", "l">>, <<"p", "k", "i", "l", "l">>}
         \/ /\ Contains(tokens[1], <<"s", "y", "s", "t", "e", "m", "c", "t", "l">>)
            /\ Len(tokens) >= 2
            /\ tokens[2] \in {<<"s", "t", "o", "p">>, <<"d", "i", "s", "a", "b", "l", "e">>, <<"m", "a", "s", "k">>}

\* C9: with confirmation enabled, for a dangerous command of a shape
\* validate_kill specialises, if validate_kill reports the command unsafe then
\* requires_confirmation returns (true, reason) with reason exactly the error
\* validate_kill returned.
C9_BlockReasonSurfaced ==
  /\ call.op = "requires_confirmation"
  /\ safety.require_confirmation
  /\ IsDangerousCommand(safety, call.arg)
  /\ Specialised(call.arg)
  /\ ValidateKillCommand(safety, procs, call.arg).exc = "none"
  /\ ~ValidateKillCommand(safety, procs, call.arg).is_safe
  => /\ call.out.exc = "none"
     /\ call.out.required
     /\ call.out.reason = ValidateKillCommand(safety, procs, call.arg).error

\* the case of C9 the code does handle: the error of an unsafe kill surfaced
C9_KillErrorSurfaced ==
  /\ call.op = "requires_confirmation" /\ call.out.exc = "none"
  /\ Specialised(call.arg)
  /\ ~ValidateKillCommand(safety, procs, call.arg).is_safe
  /\ call.out.reason = ValidateKillCommand(safety, procs, call.arg).error

\* the policy names the init / service manager process
ProtectsInitName(p) ==
  \E i \in 1..Len(p.protected_processes) :
    Lower(p.protected_processes[i]) \in {<<"s", "y", "s", "t", "e", "m", "d">>, <<"i", "n", "i", "t">>}

\* C10: in every state in which the validator or the executor can run, the
\* protected-PID set contains PID 1 and the protected-name set contains the
\* init/service-manager name, whatever the configuration file contained and
\* whatever updates were applied; a configuration without them is corrected
\* or rejected at load.
C10_PolicyKeepsInit ==
  PolicyLoaded => 1 \in safety.protected_pids /\ ProtectsInitName(safety)

(***************************************************************************)
(* Claims about the operations of SafetyValidator taken one by one.        *)
(***************************************************************************)
\* the identifier names a process id: int() accepts it and psutil takes it
IsPid(identifier) == IsInt(identifier) /\ IntVal(identifier) >= 0

\* the protected names the text contains, compared without regard to case
ProtectedNamesIn(p, text) ==
  {i \in 1..Len(p.protected_processes) :
     Contains(Lower(text), Lower(p.protected_processes[i]))}

\* C11: is_protected(identifier): a numeric identifier in the protected-PID
\* set is protected with a reason citing the PID, whatever the process table
\* holds; a process id not in the set whose process does not exist or cannot
\* be read is (false, no reason); otherwise the identifier (a name; int()
\* followed by psutil takes a negative number for one) or the name the process
\* id resolves to is protected exactly when it contains a protected name as a
\* case-insensitive substring, with a reason citing that name.
C11_ProtectedDecision ==
  call.op = "is_protected_process" =>
    LET id == call.arg
        entry == ProcEntry(procs, IntVal(id))
        text == IF IsPid(id) THEN entry.name ELSE id
    IN  IF IsInt(id) /\ IntVal(id) \in safety.protected_pids
        THEN /\ call.out = [protected |-> TRUE, reason |-> Msg("pid", IntVal(id), <<>>)]
             /\ \A t \in Tables : IsProtectedProcess(safety, t, id) = call.out
        ELSE IF IsPid(id) /\ entry.state # "ok"
        THEN call.out = [protected |-> FALSE, reason |-> None]
        ELSE /\ call.out.protected = (ProtectedNamesIn(safety, text) # {})
             /\ call.out.protected =>
                  \E i \in ProtectedNamesIn(safety, text) :
                    call.out.reason = Msg("name", 0, safety.protected_processes[i])
             /\ ~call.out.protected => call.out.reason = None

\* the case of C11: a name that differs in case from the protected name it
\* contains has been found protected
C11_CaseInsensitiveMatch ==
  /\ call.op = "is_protected_process"
  /\ call.arg = <<"n", "e", "t", "w", "o", "r", "k", "m", "a", "n", "a", "g", "e", "r">>
  /\ call.out = [protected |-> TRUE, reason |-> Msg("name", 0, <<"N", "e", "t", "w", "o", "r", "k", "M", "a", "n", "a", "g", "e", "r">>)]

\* a command whose first token is kill, killall or pkill
KillCommand(command) ==
  /\ Split(command) # <<>>
  /\ Split(command)[1] \in {<<"k", "i", "l", "l">>, <<"k", "i", "l", "l", "a", "l", "l">>, <<"p", "k", "i", "l", "l">>}

LastToken(command) == Split(command)[Len(Split(command))]

\* C12: for a command whose first token is kill, killall or pkill,
\* validate_kill returns unsafe with an error when there is no argument;
\* otherwise the last token is the target, it returns is_safe=false with the
\* reason of is_protected exactly when is_protected(last token) is true, and
\* two such commands with the same first and last tokens get the same verdict
\* whatever the tokens in between: each gets the verdict of the command made
\* of its first and last token alone.
C12_LastTokenDecides ==
  call.op = "validate_kill_command" /\ KillCommand(call.arg) =>
    LET tokens == Split(call.arg)
        prot == IsProtectedProcess(safety, procs, LastToken(call.arg))
    IN  IF Len(tokens) = 1
        THEN /\ call.out.exc = "none" /\ ~call.out.is_safe
             /\ call.out.error = Msg("notarget", 0, tokens[1])
        ELSE /\ (call.out.exc = "none" /\ ~call.out.is_safe) = prot.protected
             /\ prot.protected => call.out.error = prot.reason
             /\ call.out = ValidateKillCommand(safety, procs,
                                               Join(<<tokens[1], LastToken(call.arg)>>))

\* the case of C12: a protected last token behind an argument that is not
C12_ProtectedBehindFlag ==
  /\ call.op = "validate_kill_command"
  /\ call.arg = <<"k", "i", "l", "l", " ", "-", "9", " ", "1">>
  /\ call.out.exc = "none" /\ ~call.out.is_safe
  /\ call.out.error = Msg("pid", 1, <<>>)

\* a command of the form systemctl <action> <service>, action one of stop,
\* disable and mask
ServiceStopCommand(command) ==
  /\ Len(Split(command)) = 3
  /\ Split(command)[1] = <<"s", "y", "s", "t", "e", "m", "c", "t", "l">>
  /\ Split(command)[2] \in {<<"s", "t", "o", "p">>, <<"d", "i", "s", "a", "b", "l", "e">>, <<"m", "a", "s", "k">>}

\* the name without the suffix, if it ends with it
StripSuffix(name, suffix) ==
  IF /\ Len(name) >= Len(suffix)
     /\ SubSeq(name, Len(name) - Len(suffix) + 1, Len(name)) = suffix
  THEN SubSeq(name, 1, Len(name) - Len(suffix))
  ELSE name

KillOrStopCommand(command) ==
  LET tokens == Split(command)
  IN  \/ KillCommand(command)
      \/ /\ Len(tokens) >= 2
         /\ Contains(tokens[1], <<"s", "y", "s", "t", "e", "m", "c", "t", "l">>)
         /\ tokens[2] \in {<<"s", "t", "o", "p">>, <<"d", "i", "s", "a", "b", "l", "e">>, <<"m", "a", "s", "k">>}

\* C14: validate_kill returns is_safe=true with no error for every command
\* that is neither a kill/killall/pkill command nor a systemctl
\* stop/disable/mask command (systemctl status, a two-token systemctl
\* command, any unrelated command).
C14_OtherCommandsPass ==
  call.op = "validate_kill_command" /\ ~KillOrStopCommand(call.arg) =>
    /\ call.out.exc = "none"
    /\ call.out.is_safe
    /\ call.out.error = None

\* the case of C14 that does pass: an unrelated command
C14_UnrelatedPasses ==
  /\ call.op = "validate_kill_command"
  /\ call.arg = <<"r", "m", " ", "n", "g", "i", "n", "x">>
  /\ call.out = Verdict("none", TRUE, None, None)

\* C15: is_dangerous(command) is true exactly when some entry of the policy's
\* dangerous-command set occurs in the command as a whole word, comparing
\* case-insensitively; the result depends on the policy and the input only.
C15_DangerousDecision ==
  call.op = "is_dangerous_command" =>
    call.out = (\E i \in 1..Len(safety.dangerous_commands) :
                  WordSearch(Lower(call.arg), Lower(safety.dangerous_commands[i])))

\* the case of C15 under the default policy: "systemctl stop" as whole words
C15_StopIsDangerous ==
  /\ call.op = "is_dangerous_command"
  /\ safety.dangerous_commands = DefaultDangerousCommands
  /\ call.arg = <<"s", "y", "s", "t", "e", "m", "c", "t", "l", " ", "s", "t", "o", "p", " ", "n", "g", "i", "n", "x">>
  /\ call.out = TRUE

(***************************************************************************)
(* Claims about the results of execute and the audit log.                  *)
(***************************************************************************)
\* C16: an execute call with dry_run=true never spawns a process and always
\* returns a result with exit_code=0, succeeded=true and timed_out=false,
\* for every working directory, one that does not exist included.
C16_DryRunReturns ==
  \A c \in Calls :
    dryRun[c] /\ pc[c] # "idle" =>
      /\ spawns[c] = 0
      /\ leader[c] = "none"
      /\ Returned(c)
      /\ result[c].returncode = 0
      /\ Success(result[c])
      /\ ~result[c].timed_out

\* the case of C16 that does return: a dry run in a directory that does not
\* exist
C16_DryRunInMissingDir ==
  \E c \in Calls :
    /\ dryRun[c] /\ Returned(c)
    /\ result[c] = DryRunResult("missing")
    /\ spawns[c] = 0

\* the call returned a result built from the decoded output of the child
ReturnedOutput(c) == Returned(c) /\ result[c].path = "try"

\* C17: for every pair of decoded output lengths and every max_output_size,
\* truncated is true exactly when len(stdout)+len(stderr) > max_output_size;
\* when it is false both streams are returned unchanged; when it is true
\* stdout is cut to its first floor(max_output_size * len(stdout) / total)
\* characters and stderr to its first (max_output_size - stdout_limit)
\* characters, and the marker is appended to each.
C17_ProportionalTruncation ==
  \A c \in Calls :
    ReturnedOutput(c) =>
      LET r == result[c]
          out == r.decoded.stdout
          err == r.decoded.stderr
          max_size == settings.max_output_size
          total == out.len + err.len
      IN  /\ r.truncated = (total > max_size)
          /\ ~r.truncated => r.stdout = out /\ r.stderr = err
          /\ r.truncated =>
                LET stdout_limit == (max_size * out.len) \div total
                IN  /\ r.stdout = WithMarker(Prefix(out, stdout_limit))
                    /\ r.stderr = WithMarker(Prefix(err, max_size - stdout_limit))

\* the case of C17: three characters of stdout and one of stderr under a
\* limit of two, cut to one character each
C17_SplitInProportion ==
  \E c \in Calls :
    /\ ReturnedOutput(c) /\ result[c].truncated
    /\ settings.max_output_size = SmallCap
    /\ result[c].decoded.stdout.len = 3 /\ result[c].decoded.stderr.len = 1
    /\ result[c].stdout = WithMarker(Str("child", 1))
    /\ result[c].stderr = WithMarker(Str("child", 1))

\* the two streams of r hold at most max_output_size characters and two
\* markers; the command's own output in a truncated r is within the limit
WithinOutputCap(r) ==
  /\ Len_(r.stdout) + Len_(r.stderr) <= settings.max_output_size + 2 * MarkerLen
  /\ r.truncated => r.stdout.len + r.stderr.len <= settings.max_output_size

\* C18: for every result of execute, len(stdout)+len(stderr) <=
\* max_output_size + 2*len(marker); a truncated result never carries more
\* than max_output_size characters of the command's own output.
C18_EveryResultCapped ==
  \A c \in Calls : Returned(c) => WithinOutputCap(result[c])

\* C18 as amended: the same for every result of execute other than the one
\* built by the exception handler, whose stderr is the exception text, uncut.
C18_CappedUnlessError ==
  \A c \in Calls :
    Returned(c) /\ result[c].path # "except" => WithinOutputCap(result[c])

\* the case of C18: a truncated result that fills the limit and carries both
\* markers
C18_TruncatedAtCap ==
  \E c \in Calls :
    /\ ReturnedOutput(c) /\ result[c].truncated
    /\ settings.max_output_size = SmallCap
    /\ Len_(result[c].stdout) + Len_(result[c].stderr) = SmallCap + 2 * MarkerLen

\* the call is over: it returned, or an exception left execute
Ended(c) == pc[c] \in {"done", "raised", "cancelled"}

\* the writes of a line the call made
LogWrites(c) == {i \in 1..Len(history) : history[i].call = c}

\* C19: each execute call that is not a dry run appends exactly one line to
\* the audit log when log_commands is enabled (one write, kept unless the
\* write itself fails), on the normal, timed-out and spawn-failure paths
\* alike, with status SUCCESS exactly when the returned result has
\* succeeded=true; when log_commands is disabled nothing is written.
C19_OneLinePerCall ==
  \A c \in Calls :
    Ended(c) /\ ~dryRun[c] =>
      IF settings.log_commands
      THEN /\ Cardinality(LogWrites(c)) = 1
           /\ \A i \in LogWrites(c) :
                (history[i].status = "SUCCESS") = (Returned(c) /\ Success(result[c]))
      ELSE HistoryFile = <<>>

\* the case of C19 that is logged: a timed-out call and its one FAILED line
C19_TimedOutLogged ==
  \E c \in Calls :
    /\ Returned(c) /\ result[c].timed_out
    /\ HistoryFile = <<[call |-> c, status |-> "FAILED", written |-> TRUE]>>

\* the call made a write to the audit log that failed
LogWriteFailed(c) == \E i \in LogWrites(c) : ~history[i].written

\* the call went through the handler of "except Exception": the child could
\* not be started, or killpg was refused
ExceptionPath(c) == SpawnFailed(c) \/ (killTried[c] /\ reads[c] = 0)

\* the result the call builds from what happened to the child, whatever
\* becomes of the write to the audit log
ResultOfRun(c) ==
  IF ExceptionPath(c)
  THEN [returncode |-> 1, stdout |-> Empty, stderr |-> ErrorMsg, timed_out |-> FALSE,
        truncated |-> FALSE, cwd |-> workdir[c], path |-> "except",
        execution_time |-> result[c].execution_time]
  ELSE LET out == result[c].decoded.stdout
           err == result[c].decoded.stderr
           over == out.len + err.len > settings.max_output_size
       IN  [returncode |-> IF leader[c] = "reaped" /\ exitStatus[c] # {0}
                            THEN CHOOSE v \in exitStatus[c] : TRUE
                            ELSE IF timed_out[c] THEN TimeoutCode ELSE 0,
            stdout |-> IF over THEN [result[c].stdout EXCEPT !.marked = TRUE] ELSE out,
            stderr |-> IF over THEN [result[c].stderr EXCEPT !.marked = TRUE] ELSE err,
            timed_out |-> timed_out[c], truncated |-> over, cwd |-> workdir[c],
            path |-> "try", decoded |-> result[c].decoded,
            execution_time |-> result[c].execution_time]

\* C20: a failure to write the audit log never fails or alters an execute
\* call: the call returns the CommandResult it would have returned had the
\* write succeeded, and no exception reaches the caller.
C20_LogFailureSwallowed ==
  \A c \in Calls :
    LogWriteFailed(c) =>
      /\ Returned(c)
      /\ result[c] = ResultOfRun(c)
      /\ Cardinality(LogWrites(c)) = 1

\* the case of C20: the write failed after a successful command, and the
\* call returned success
C20_ReturnedDespiteFailure ==
  \E c \in Calls :
    /\ LogWriteFailed(c) /\ HistoryFile = <<>>
    /\ Returned(c) /\ Success(result[c])
    /\ result[c].path = "try"

(***************************************************************************)
(* Claims about concurrent calls, timing and exit codes.                   *)
(***************************************************************************)
\* C21: when several execute calls run concurrently the audit log only grows
\* by whole lines: every step leaves the file as it is or appends to it the
\* one line of the call that completes in that step, so every line comes
\* from one call, no line is changed or removed, and the lines are in the
\* order in which the calls completed.
C21_AppendInCompletionOrder ==
  [][\/ HistoryFile' = HistoryFile
     \/ \E c \in Calls :
          /\ ~Returned(c) /\ pc'[c] = "done"
          /\ HistoryFile' =
               Append(HistoryFile,
                      [call |-> c, written |-> TRUE,
                       status |-> IF Success(result'[c]) THEN "SUCCESS" ELSE "FAILED"])]_vars

\* the case of C21: two calls on one executor, the second completed and
\* logged before the first
C21_SecondLoggedFirst ==
  /\ Calls = {"c1", "c2"}
  /\ Len(HistoryFile) = 2
  /\ HistoryFile[1].call = "c2" /\ HistoryFile[2].call = "c1"

\* the command completed before the countdown fired: communicate() returned
\* inside the first wait_for
CompletedInTime(c) == ReturnedOutput(c) /\ ~killTried[c]

\* C22: for every command that completes before the timeout countdown
\* fires, the returned result has timed_out=false and elapsed < timeout.
C22_InTimeElapsedBelowTimeout ==
  \A c \in Calls :
    CompletedInTime(c) =>
      /\ ~result[c].timed_out
      /\ result[c].execution_time < Timeout

\* the case of C22 that is as claimed: completed in time, nothing spent
\* outside the countdown
C22_CompletedInTime ==
  \E c \in Calls :
    /\ CompletedInTime(c) /\ ~result[c].timed_out
    /\ result[c].execution_time = Timeout - 1

\* C23: for a command whose spawn succeeds and which completes before the
\* countdown fires, the result's exit_code equals the child's own exit
\* status, and succeeded is true exactly when exit_code is 0 and timed_out
\* is false, that is, exactly when the child ended with status 0.
C23_ExitCodeIsChildStatus ==
  \A c \in Calls :
    CompletedInTime(c) =>
      /\ exitStatus[c] = {result[c].returncode}
      /\ Success(result[c]) = (result[c].returncode = 0 /\ ~result[c].timed_out)
      /\ Success(result[c]) = (exitStatus[c] = {0})

\* the case of C23: execute("false"), status 1, not a success
C23_FalseIsNotSuccess ==
  \E c \in Calls :
    /\ CompletedInTime(c) /\ exitStatus[c] = {1}
    /\ result[c].returncode = 1 /\ ~Success(result[c])

(***************************************************************************)
(* Claims about the validator as a whole and about process_query.          *)
(***************************************************************************)
\* C24: no Safety Validator operation (is_dangerous, is_protected,
\* validate_kill, requires_confirmation) raises an exception to its caller,
\* for any command and any state of the process table, a process that is
\* gone, inaccessible or has no readable name included; a protection
\* violation is returned as a negative verdict with a reason.
C24_ValidatorNeverRaises ==
  /\ call.op \in {"validate_kill_command", "requires_confirmation"} => call.out.exc = "none"
  /\ call.op = "validate_kill_command" /\ TargetsProtected(call.arg) =>
        call.out.exc = "none" /\ ~call.out.is_safe /\ call.out.error # None

\* the case of C24 that is as claimed: the process behind a PID cannot be
\* read, and is_protected_process answers without raising
C24_InaccessiblePidAnswered ==
  /\ call.op = "is_protected_process" /\ call.arg = <<"7">>
  /\ procs[7] = HiddenProc
  /\ call.out = [protected |-> FALSE, reason |-> None]

\* what the operation of the outstanding call returns when it is called again
\* now, with the same argument
SecondCall ==
  CASE call.op = "is_dangerous_command" -> IsDangerousCommand(safety, call.arg)
    [] call.op = "is_protected_process" -> IsProtectedProcess(safety, procs, call.arg)
    [] call.op = "validate_kill_command" -> ValidateKillCommand(safety, procs, call.arg)
    [] call.op = "requires_confirmation" -> RequiresConfirmation(safety, procs, call.arg)
    [] OTHER -> call.out

\* a step of a validator operation or of process_query
ValidatorStep == call' # call \/ query' # query

C26_AtMostOneSpawn ==
  \A c \in Calls :
    /\ spawns[c] <= 1
    /\ leader[c] # "none" => spawns[c] = 1
    /\ Returned(c) /\ ~dryRun[c] => spawns[c] = 1

\* the case of C26: a command that timed out, returned after its one spawn
C26_TimedOutNotRestarted ==
  \E c \in Calls :
    /\ Returned(c) /\ result[c].timed_out /\ result[c].path = "try"
    /\ spawns[c] = 1

\* the answers by which the user confirms
Affirmative == {<<"y">>, <<"Y", "E", "S">>}

\* C27: in process_query the executor is invoked for a command only after
\* requires_confirmation has been evaluated for that command, and only if
\* confirmation was not required or the user confirmed; when the user
\* declines or gives the empty answer the executor is never invoked for
\* that query.
C27_ExecutedOnlyWhenCleared ==
  [][/\ query'.pc = "executing" /\ query.pc # "executing" =>
          \/ /\ query.pc = "idle"
             /\ RequiresConfirmation(safety, procs, query'.command)
                  = Confirmation("none", FALSE, None)
          \/ /\ query.pc = "prompt" /\ query.asked
             /\ query'.command = query.command
             /\ query'.answer \in Affirmative
     /\ query.pc = "prompt" /\ query'.pc # "prompt" /\ query'.answer \notin Affirmative =>
          query'.pc = "cancelled"
     /\ query.pc = "cancelled" => query'.pc \in {"cancelled", "idle"}]_vars

\* the case of C27: the user was asked, said YES, and the command is handed
\* to the executor
C27_ConfirmedThenExecuted ==
  /\ HandedToExecutor /\ query.asked
  /\ query.answer = <<"Y", "E", "S">>

\* C28: the exit code 124 is reserved for timeout: a result returned by
\* execute has exit_code=124 only if it has timed_out=true.
C28_TimeoutCodeReserved ==
  \A c \in Calls :
    Returned(c) /\ result[c].returncode = TimeoutCode => result[c].timed_out

\* the case of C28 that is as claimed: 124 put in for a call that timed out
\* and whose shell had no exit status yet
C28_TimeoutCodeOnTimeout ==
  \E c \in Calls :
    /\ Returned(c) /\ result[c].timed_out
    /\ ProcessReturncode(c) = {}
    /\ result[c].returncode = TimeoutCode

\* the stream of the result carries the marker exactly when it lost content,
\* and is the decoded stream when it lost none
MarkedIffCut(returned, decoded) ==
  /\ returned.marked = (returned.len < decoded.len)
  /\ returned.len = decoded.len => returned = decoded

\* C29: when the combined output exceeds the cap, the truncation marker is
\* appended to exactly the streams that were truncated: a stream that lost no
\* content (an empty stderr when all output is on stdout) is returned
\* unchanged, without a marker.
C29_MarkerOnlyOnCutStreams ==
  \A c \in Calls :
    ReturnedOutput(c) /\ result[c].truncated =>
      /\ MarkedIffCut(result[c].stdout, result[c].decoded.stdout)
      /\ MarkedIffCut(result[c].stderr, result[c].decoded.stderr)

\* the case of C29 that is as claimed: both streams lost content and both
\* carry the marker
C29_BothCutBothMarked ==
  \E c \in Calls :
    /\ ReturnedOutput(c) /\ result[c].truncated
    /\ result[c].stdout.len < result[c].decoded.stdout.len /\ result[c].stdout.marked
    /\ result[c].stderr.len < result[c].decoded.stderr.len /\ result[c].stderr.marked

\* C30: for every command and policy, requires_confirmation returns a reason
\* exactly when it returns required=true: (true, reason) always carries a
\* reason and (false, reason) always carries none.
C30_ReasonIffRequired ==
  call.op = "requires_confirmation" /\ call.out.exc = "none" =>
    call.out.required = (call.out.reason # None)

\* the case of C30: a kill command found safe still requires confirmation,
\* and the reason says so
C30_SafeKillHasReason ==
  /\ call.op = "requires_confirmation" /\ call.arg = <<"k", "i", "l", "l", " ", "4", "2">>
  /\ call.out.exc = "none" /\ call.out.required
  /\ call.out.reason = Msg("terminate", 0, <<>>)

====
